---- MODULE Spec2Model ----
(***************************************************************************)
(* Model of the Mail Discovery Parser API (src/parser/main.py): the        *)
(* request schema (EmailHeader, ParserRequest), the POST /parse handler    *)
(* parse_headers, and the response it builds.                              *)
(*                                                                         *)
(* A request slot goes  idle -> received -> aggregating -> done -> idle,   *)
(* or  idle -> received -> rejected -> idle  when schema validation fails. *)
(* The handler's loop is modelled one header per step, so that requests    *)
(* served by parallel workers can interleave between headers.              *)
(***************************************************************************)
EXTENDS Integers, Sequences, FiniteSets, TLC

(***************************************************************************)
(* Bounds of the model.                                                    *)
(***************************************************************************)
\* Largest number of header objects in one request body.
MaxHeaders == 2
\* Largest size of one request body: the number of leaf JSON values (null,
\* string, empty list, list element) its optional fields hold, plus the
\* number of required fields (id, folder) it leaves out.
MaxSize == 2
\* Number of request slots served concurrently.
NumReq == 2
\* Largest number of header objects in a body of the concurrent workload.
MaxConcHeaders == 1

\* Address strings the clients send.  The empty string is a legal JSON
\* string and the schema accepts it.
Addr == {"", "a@x.com", "b@x.com"}

(***************************************************************************)
(* JSON values of a request body.                                          *)
(***************************************************************************)
Absent == [kind |-> "absent"]
Null == [kind |-> "null"]
Str(s) == [kind |-> "str", s |-> s]
Lst(l) == [kind |-> "list", l |-> l]
\* Python's None, the default of every Optional field.
None == [kind |-> "none"]

Range(f) == {f[i] : i \in DOMAIN f}

\* Number of leaf JSON values of a field value.
SizeOf(v) ==
  CASE v.kind = "absent" -> 0
    [] v.kind = "list" -> IF Len(v.l) = 0 THEN 1 ELSE Len(v.l)
    [] OTHER -> 1

OptionalFields == <<"subject", "from", "to", "cc", "bcc", "date">>
ListFields == {"to", "cc", "bcc"}

NonEmptyLists(k) == UNION {[1..m -> Addr] : m \in 1..k}

\* The values a client may put in an optional field, within k leaves.
FieldValues(name, k) ==
  {Absent} \cup
  (IF k < 1 THEN {}
   ELSE CASE name = "subject" -> {Str("Hello")}
          [] name = "date" -> {Str("2024-01-01")}
          [] name = "from" -> {Null} \cup {Str(a) : a \in Addr}
          [] OTHER -> {Null, Lst(<<>>)} \cup {Lst(l) : l \in NonEmptyLists(k)})

RECURSIVE OptionalParts(_, _)
OptionalParts(i, k) ==
  IF i > Len(OptionalFields) THEN {[x \in {} |-> Absent]}
  ELSE UNION {{(OptionalFields[i] :> v) @@ p :
                  p \in OptionalParts(i + 1, k - SizeOf(v))} :
              v \in FieldValues(OptionalFields[i], k)}

\* The required fields, with at most m of them left out.
RequiredParts(m) ==
  {[id |-> Str("m1"), folder |-> Str("INBOX")]} \cup
  (IF m >= 1
   THEN {[id |-> Absent, folder |-> Str("INBOX")],
         [id |-> Str("m1"), folder |-> Absent]}
   ELSE {}) \cup
  (IF m >= 2 THEN {[id |-> Absent, folder |-> Absent]} ELSE {})

RawMissing(h) ==
  (IF h.id = Absent THEN 1 ELSE 0) + (IF h.folder = Absent THEN 1 ELSE 0)

RawSize(h) ==
  SizeOf(h.subject) + SizeOf(h.from) + SizeOf(h.to) + SizeOf(h.cc)
    + SizeOf(h.bcc) + SizeOf(h.date) + RawMissing(h)

\* Raw header objects of size at most k.
RawHeaders(k) ==
  UNION {{p @@ q : p \in OptionalParts(1, k - RawMissing(q))} :
         q \in RequiredParts(k)}

RECURSIVE HeaderRow(_)
\* <<RawHeaders(0), ..., RawHeaders(k)>>
HeaderRow(k) == IF k < 0 THEN <<>> ELSE Append(HeaderRow(k - 1), RawHeaders(k))

HeaderTable == HeaderRow(MaxSize)

\* The concurrent workload: headers that carry at most a non-empty sender,
\* or lack the folder.
ConcHeaders ==
  {h \in RawHeaders(1) : /\ h.id # Absent
                         /\ h.from \notin {Null, Str("")}
                         /\ h.subject = Absent /\ h.date = Absent
                         /\ h.to = Absent /\ h.cc = Absent /\ h.bcc = Absent}
ConcBodies == UNION {[1..n -> ConcHeaders] : n \in 0..MaxConcHeaders}


(***************************************************************************)
(* State.                                                                  *)
(***************************************************************************)
VARIABLES
  pc,             \* slot -> idle, received, aggregating, done, rejected, failed
  body,           \* slot -> the raw "headers" array of the request
  headers,        \* slot -> request.headers, once validated
  idx,            \* slot -> position of the loop in request.headers
  unique_emails,  \* slot -> the handler's local set
  response        \* slot -> the HTTP response

vars == <<pc, body, headers, idx, unique_emails, response>>

(***************************************************************************)
(* The schema: EmailHeader and ParserRequest.                              *)
(***************************************************************************)
\* A field declared Optional[...] = None: left out or null, it is None.
OptionalField(v) == IF v.kind \in {"absent", "null"} THEN None ELSE v

\* A field declared str (id, folder) must be there and be a string.
RequiredOk(v) == v.kind = "str"

\* The schema with folder declared Optional.
ValidHeaderFolderOptional(h) == RequiredOk(h.id)

\* One object of "headers" passes the schema.
ValidHeader(h) == RequiredOk(h.id) /\ RequiredOk(h.folder)

\* The body passes the schema: every object of the list does.
ValidRequest(b) == \A i \in 1..Len(b) : ValidHeader(b[i])

\* The EmailHeader built from a raw object; "from" and "to" are aliases.
EmailHeader(h) ==
  [id |-> h.id,
   subject |-> OptionalField(h.subject),
   from_addr |-> OptionalField(h.from),
   to_addr |-> OptionalField(h.to),
   cc |-> OptionalField(h.cc),
   bcc |-> OptionalField(h.bcc),
   date |-> OptionalField(h.date),
   folder |-> h.folder]

\* request.headers of the ParserRequest built from a raw body.
ParserRequest(b) == [i \in 1..Len(b) |-> EmailHeader(b[i])]

(***************************************************************************)
(* parse_headers.  A Python set is kept as a duplicate-free sequence.      *)
(***************************************************************************)
\* A set that is not made per call: the handler picks up the set of a
\* request still in its loop.
LeakedSet(r) ==
  IF \E q \in (1..NumReq) \ {r} : pc[q] = "aggregating"
  THEN unique_emails[CHOOSE q \in (1..NumReq) \ {r} : pc[q] = "aggregating"]
  ELSE <<>>

\* A set that is not made per call: the handler starts from the result of
\* a request already answered.
CachedSet(r) ==
  IF \E q \in (1..NumReq) \ {r} : pc[q] = "done"
  THEN response[CHOOSE q \in (1..NumReq) \ {r} : pc[q] = "done"].unique_emails
  ELSE <<>>

\* set(): a new, empty set for the request served in slot r.
NewSet(r) == <<>>

\* A list in place of the set: unique_emails.append(x)
ListAppend(acc, x) == Append(acc, x)

\* unique_emails.add(x)
SetAdd(acc, x) == IF x \in Range(acc) THEN acc ELSE Append(acc, x)

\* The guards of the loop body left out.
NoGuard(v) == TRUE

\* Python's truth value of a field: None, "" and [] are false.
Truthy(v) ==
  CASE v.kind = "str" -> v.s # ""
    [] v.kind = "list" -> Len(v.l) > 0
    [] OTHER -> FALSE

RECURSIVE AddEach(_, _)
\* for email in l: unique_emails.add(email)
AddEach(acc, l) ==
  IF l = <<>> THEN acc ELSE AddEach(SetAdd(acc, Head(l)), Tail(l))

\* The body of the loop raises: it iterates a value that is no list, or it
\* puts a value that is no string into the set, which the response model
\* (unique_emails: List[str]) refuses.
Raises(header) ==
  \/ Truthy(header.from_addr) /\ header.from_addr.kind # "str"
  \/ Truthy(header.to_addr) /\ header.to_addr.kind # "list"
  \/ Truthy(header.cc) /\ header.cc.kind # "list"
  \/ Truthy(header.bcc) /\ header.bcc.kind # "list"

\* The loop body taking the subject for one more address field.
AddHeaderAndSubject(acc, header) ==
  LET add(a, x) == IF x \in Range(a) THEN a ELSE Append(a, x)
      s0 == IF header.subject.kind = "str" THEN add(acc, header.subject.s) ELSE acc
      s1 == IF header.from_addr.kind = "str" /\ header.from_addr.s # ""
            THEN add(s0, header.from_addr.s) ELSE s0
      s2 == IF header.to_addr.kind = "list" THEN AddEach(s1, header.to_addr.l) ELSE s1
      s3 == IF header.cc.kind = "list" THEN AddEach(s2, header.cc.l) ELSE s2
      s4 == IF header.bcc.kind = "list" THEN AddEach(s3, header.bcc.l) ELSE s3
  IN s4

\* The body of the loop, for one header.
AddHeader(acc, header) ==
  LET s1 == IF Truthy(header.from_addr)
            THEN SetAdd(acc, header.from_addr.s) ELSE acc
      s2 == IF Truthy(header.to_addr) THEN AddEach(s1, header.to_addr.l) ELSE s1
      s3 == IF Truthy(header.cc) THEN AddEach(s2, header.cc.l) ELSE s2
      s4 == IF Truthy(header.bcc) THEN AddEach(s3, header.bcc.l) ELSE s3
  IN s4

\* list(unique_emails): the elements in an order the set chooses.
ListOf(acc) ==
  {[i \in 1..Len(acc) |-> acc[p[i]]] : p \in Permutations(1..Len(acc))}

\* The count of the addresses found in place of the count of the headers.
CountFound(hs) ==
  Cardinality(UNION {(IF hs[i].from_addr.kind = "str" THEN {hs[i].from_addr.s} ELSE {})
                       \cup (IF hs[i].to_addr.kind = "list" THEN Range(hs[i].to_addr.l) ELSE {})
                       \cup (IF hs[i].cc.kind = "list" THEN Range(hs[i].cc.l) ELSE {})
                       \cup (IF hs[i].bcc.kind = "list" THEN Range(hs[i].bcc.l) ELSE {}) :
                     i \in 1..Len(hs)})

\* len(request.headers)
TotalProcessed(hs) == Len(hs)

RECURSIVE Aggregate(_, _)
\* The whole loop, run from the set acc over the headers hs.
Aggregate(acc, hs) ==
  IF hs = <<>> THEN acc ELSE Aggregate(AddHeader(acc, Head(hs)), Tail(hs))

(***************************************************************************)
(* The service.                                                            *)
(***************************************************************************)
Reqs == 1..NumReq

NoResponse == [status |-> 0]

Init ==
  /\ pc = [r \in Reqs |-> "idle"]
  /\ body = [r \in Reqs |-> <<>>]
  /\ headers = [r \in Reqs |-> <<>>]
  /\ idx = [r \in Reqs |-> 0]
  /\ unique_emails = [r \in Reqs |-> <<>>]
  /\ response = [r \in Reqs |-> NoResponse]

\* POST /parse arrives with the "headers" array b.
Receive(r, b) ==
  /\ pc[r] = "idle"
  /\ pc' = [pc EXCEPT ![r] = "received"]
  /\ body' = [body EXCEPT ![r] = b]
  /\ UNCHANGED <<headers, idx, unique_emails, response>>

RECURSIVE Compose(_, _, _, _)
\* A client sends prefix, or prefix with up to n more header objects of
\* total size at most k, to the idle slot r.
Compose(r, prefix, n, k) ==
  /\ pc[r] = "idle"
  /\ \/ Receive(r, prefix)
     \/ /\ n > 0
        /\ \E h \in HeaderTable[k + 1] :
             Compose(r, prefix \o <<h>>, n - 1, k - RawSize(h))

\* The body fails the schema: 422, and the handler is not called.
Reject(r) ==
  /\ pc[r] = "received"
  /\ ~ValidRequest(body[r])
  /\ pc' = [pc EXCEPT ![r] = "rejected"]
  /\ response' = [response EXCEPT ![r] = [status |-> 422]]
  /\ UNCHANGED <<body, headers, idx, unique_emails>>

\* The body passes the schema: parse_headers is called and makes its set.
Enter(r) ==
  /\ pc[r] = "received"
  /\ ValidRequest(body[r])
  /\ pc' = [pc EXCEPT ![r] = "aggregating"]
  /\ headers' = [headers EXCEPT ![r] = ParserRequest(body[r])]
  /\ unique_emails' = [unique_emails EXCEPT ![r] = NewSet(r)]
  /\ idx' = [idx EXCEPT ![r] = 1]
  /\ UNCHANGED <<body, response>>

\* One round of the loop over request.headers.
Step(r) ==
  /\ pc[r] = "aggregating"
  /\ idx[r] <= Len(headers[r])
  /\ IF Raises(headers[r][idx[r]])
     THEN /\ pc' = [pc EXCEPT ![r] = "failed"]
          /\ response' = [response EXCEPT ![r] = [status |-> 500]]
          /\ UNCHANGED <<idx, unique_emails>>
     ELSE /\ unique_emails' =
               [unique_emails EXCEPT ![r] = AddHeader(@, headers[r][idx[r]])]
          /\ idx' = [idx EXCEPT ![r] = @ + 1]
          /\ UNCHANGED <<pc, response>>
  /\ UNCHANGED <<body, headers>>

\* The loop is over: the handler returns and its local set is gone.
Respond(r) ==
  /\ pc[r] = "aggregating"
  /\ idx[r] > Len(headers[r])
  /\ \E l \in ListOf(unique_emails[r]) :
       response' = [response EXCEPT ![r] =
                      [status |-> 200,
                       unique_emails |-> l,
                       total_processed |-> TotalProcessed(headers[r])]]
  /\ pc' = [pc EXCEPT ![r] = "done"]
  /\ unique_emails' = [unique_emails EXCEPT ![r] = <<>>]
  /\ UNCHANGED <<body, headers, idx>>

\* The response is delivered; nothing of the request is kept.
Close(r) ==
  /\ pc[r] \in {"done", "rejected", "failed"}
  /\ pc' = [pc EXCEPT ![r] = "idle"]
  /\ body' = [body EXCEPT ![r] = <<>>]
  /\ headers' = [headers EXCEPT ![r] = <<>>]
  /\ idx' = [idx EXCEPT ![r] = 0]
  /\ unique_emails' = [unique_emails EXCEPT ![r] = <<>>]
  /\ response' = [response EXCEPT ![r] = NoResponse]

\* One worker, one request at a time, any body within the bounds.
Next ==
  \/ Compose(1, <<>>, MaxHeaders, MaxSize)
  \/ Reject(1)
  \/ Enter(1)
  \/ Step(1)
  \/ Respond(1)
  \/ Close(1)

Spec == Init /\ [][Next]_vars

\* The handler is scheduled until it returns.
FairSpec ==
  Spec /\ WF_vars(Reject(1)) /\ WF_vars(Enter(1)) /\ WF_vars(Step(1))
       /\ WF_vars(Respond(1))

\* NumReq requests in flight, interleaved between any two steps.
NextConc ==
  \E r \in Reqs :
    \/ \E b \in ConcBodies : Receive(r, b)
    \/ Reject(r)
    \/ Enter(r)
    \/ Step(r)
    \/ Respond(r)
    \/ Close(r)

SpecConc == Init /\ [][NextConc]_vars

(***************************************************************************)
(* What a request body holds, read off the raw JSON.                       *)
(***************************************************************************)
FromAddrs(h) == IF h.from.kind = "str" THEN {h.from.s} ELSE {}
ListAddrs(v) == IF v.kind = "list" THEN Range(v.l) ELSE {}

\* Every string in a from field or in a to, cc or bcc list of the body.
AddressesOf(b) ==
  UNION {FromAddrs(b[i]) \cup ListAddrs(b[i].to) \cup ListAddrs(b[i].cc)
           \cup ListAddrs(b[i].bcc) : i \in 1..Len(b)}

\* Some object of the body lacks id or folder.
LacksRequired(b) ==
  \E i \in 1..Len(b) : b[i].id = Absent \/ b[i].folder = Absent

Returned(r) == Range(response[r].unique_emails)

\* The elements of a list field, none when the field is left out or null.
ElementsOf(v) == IF v.kind = "list" THEN v.l ELSE <<>>

RemoveAt(l, p) == [i \in 1..(Len(l) - 1) |-> IF i < p THEN l[i] ELSE l[i + 1]]

\* The body with its header objects in another order.
RecordsPermuted(b) ==
  {[i \in 1..Len(b) |-> b[p[i]]] : p \in Permutations(1..Len(b))}

\* The body with the elements of one of its lists in another order.
ListPermuted(b) ==
  UNION {{[b EXCEPT ![i][f] = Lst(l)] : l \in ListOf(b[i][f].l)} :
         <<i, f>> \in {x \in (1..Len(b)) \X ListFields : b[x[1]][x[2]].kind = "list"}}

\* The body with one sender moved to the end of a list of the request.
SenderMoved(b) ==
  UNION {{[[b EXCEPT ![i]["from"] = Absent]
             EXCEPT ![j][g] = Lst(ElementsOf(b[j][g]) \o <<b[i].from.s>>)] :
            <<j, g>> \in (1..Len(b)) \X ListFields} :
         i \in {x \in 1..Len(b) : b[x].from.kind = "str"}}

\* The body with one list element moved to the end of another list.
ElementMoved(b) ==
  UNION {UNION {{[[b EXCEPT ![i][f] = Lst(RemoveAt(b[i][f].l, p))]
                    EXCEPT ![j][g] = Lst(ElementsOf(b[j][g]) \o <<b[i][f].l[p]>>)] :
                   <<j, g>> \in ((1..Len(b)) \X ListFields) \ {<<i, f>>}} :
                p \in 1..Len(b[i][f].l)} :
         <<i, f>> \in {x \in (1..Len(b)) \X ListFields : b[x[1]][x[2]].kind = "list"}}

Rearranged(b) ==
  RecordsPermuted(b) \cup ListPermuted(b) \cup SenderMoved(b) \cup ElementMoved(b)

(***************************************************************************)
(* The claims.                                                             *)
(***************************************************************************)

\* C1: for every valid request, every address string of a from field or of
\* a to, cc or bcc list of the body is an element of the returned
\* unique_emails.
C1_EveryAddressReturned ==
  \A r \in Reqs : pc[r] = "done" => AddressesOf(body[r]) \subseteq Returned(r)

\* C2: empty-string addresses are not filtered: when the empty string is a
\* from value or a list element of a valid request, it is an element of the
\* returned unique_emails.
C2_EmptyStringReturned ==
  \A r \in Reqs :
    (pc[r] = "done" /\ "" \in AddressesOf(body[r])) => "" \in Returned(r)

\* C3: for every valid request, total_processed is the number of elements
\* of headers, whatever was found and whichever fields are absent, null or
\* empty.
C3_TotalIsLength ==
  \A r \in Reqs : pc[r] = "done" => response[r].total_processed = Len(body[r])

\* A request of MaxHeaders >= 2 objects whose address fields are left out,
\* null or empty was answered: nothing was found, yet every object counts.
C3_Witness ==
  /\ pc[1] = "done"
  /\ Len(body[1]) >= 2
  /\ body[1][1].to = Null
  /\ body[1][2].cc = Lst(<<>>)
  /\ response[1].unique_emails = <<>>
  /\ response[1].total_processed = Len(body[1])

\* C4: every element of the returned unique_emails is a from value or a to,
\* cc or bcc element of the body (never a subject, id, date or folder), and
\* an empty headers list is answered with unique_emails = [] and
\* total_processed = 0.
C4_NothingExtraneous ==
  \A r \in Reqs :
    pc[r] = "done" =>
      /\ Returned(r) \subseteq AddressesOf(body[r])
      /\ body[r] = <<>> =>
           response[r] = [status |-> 200, unique_emails |-> <<>>,
                          total_processed |-> 0]

\* A request with a subject and a sender was answered with the sender only.
C4_Witness ==
  /\ pc[1] = "done"
  /\ Len(body[1]) = 1
  /\ body[1][1].subject = Str("Hello")
  /\ body[1][1].from = Str("a@x.com")
  /\ response[1].unique_emails = <<"a@x.com">>

C6_MalformedRejected ==
  \A r \in Reqs :
    (pc[r] # "idle" /\ LacksRequired(body[r])) =>
      /\ pc[r] \in {"received", "rejected"}
      /\ headers[r] = <<>> /\ idx[r] = 0 /\ unique_emails[r] = <<>>
      /\ response[r] = IF pc[r] = "rejected" THEN [status |-> 422] ELSE NoResponse

\* A batch of a well-formed record with a sender and a record without
\* folder was rejected.
C6_Witness ==
  /\ pc[1] = "rejected"
  /\ Len(body[1]) = 2
  /\ body[1][1].from = Str("a@x.com")
  /\ body[1][1].id # Absent /\ body[1][1].folder # Absent
  /\ body[1][2].folder = Absent
  /\ response[1] = [status |-> 422]

\* C7: two calls with the same valid body, whatever was served in between,
\* return the same total_processed and the same set of unique_emails.
C7_SameBodySameResult ==
  \A r1, r2 \in Reqs :
    (pc[r1] = "done" /\ pc[r2] = "done" /\ body[r1] = body[r2]) =>
      /\ response[r1].total_processed = response[r2].total_processed
      /\ Returned(r1) = Returned(r2)

\* Two calls with the same body, which holds an address, were answered.
C7_Witness ==
  /\ pc[1] = "done" /\ pc[2] = "done"
  /\ body[1] = body[2]
  /\ Len(body[1]) = 1
  /\ body[1][1].from = Str("a@x.com")
  /\ Returned(1) = {"a@x.com"}

\* C8: of requests that are served interleaved, each accumulates into a set
\* of its own: its set and its response hold addresses of its own headers
\* only, and the response is the one the request gets when served alone.
C8_Isolated ==
  \A r \in Reqs :
    /\ pc[r] = "aggregating" =>
         Range(unique_emails[r]) \subseteq AddressesOf(body[r])
    /\ pc[r] = "done" =>
         /\ Returned(r) \subseteq AddressesOf(body[r])
         /\ Returned(r) = Range(Aggregate(<<>>, ParserRequest(body[r])))
         /\ response[r].total_processed = Len(body[r])

\* Request 2 is in its loop, holding its own address, after request 1 was
\* answered with another one.
C8_Witness ==
  /\ pc[1] = "done" /\ pc[2] = "aggregating"
  /\ response[1].unique_emails = <<"a@x.com">>
  /\ unique_emails[2] = <<"b@x.com">>

\* C9: over validated input the handler is total: it never fails, it
\* returns after visiting each record once, with a success response, and a
\* handler that was called does return.
C9_Total ==
  /\ [](\A r \in Reqs :
          /\ pc[r] # "failed"
          /\ pc[r] = "aggregating" => idx[r] \in 1..(Len(headers[r]) + 1)
          /\ pc[r] = "done" =>
               /\ idx[r] = Len(body[r]) + 1
               /\ response[r].status = 200
               /\ DOMAIN response[r] = {"status", "unique_emails", "total_processed"})
  /\ \A r \in Reqs : (pc[r] = "aggregating") ~> (pc[r] = "done")

\* A request of two records with a null field, a list and fields left out
\* was answered.
C9_Witness ==
  /\ pc[1] = "done"
  /\ Len(body[1]) = 2
  /\ body[1][1].from = Null /\ body[1][1].to = Absent
  /\ body[1][2].bcc = Lst(<<"">>) /\ body[1][2].from = Absent
  /\ response[1].status = 200
  /\ idx[1] = 3

\* C10: the set of unique_emails and total_processed do not depend on the
\* order of the records, on the order inside a to, cc or bcc list, or on the
\* address field an address sits in: the rearranged body gets the same
\* result.
C10_OrderIndependent ==
  \A r \in Reqs :
    pc[r] = "done" =>
      \A b \in Rearranged(body[r]) :
        /\ Range(Aggregate(<<>>, ParserRequest(b))) = Returned(r)
        /\ TotalProcessed(ParserRequest(b)) = response[r].total_processed

====
